---- MODULE Spec2Model ----
(***************************************************************************)
(* tidyup: src/main.rs.  One run of the program = tidyup() followed by the *)
(* report of main().  Strings are sequences of one-character strings, so   *)
(* that the extension of a file name and starts_with('-') are computed,    *)
(* not assumed.                                                            *)
(***************************************************************************)
EXTENDS Integers, Sequences, FiniteSets, TLC

VARIABLES
    args,                 \* env::args() without the program name (args[i] is Rust's args[i])
    pc,                   \* position of the run: parse, provision, read_dir, scan, report, done
    dir_name,             \* main.rs:41
    relevant_extensions,  \* main.rs:39
    ignore_extensions,    \* main.rs:40
    verbose,              \* main.rs:43
    todo,                 \* values of extension_mapping the loop of main.rs:100 has still to visit
    entries,              \* directory entries the loop of main.rs:107 has still to visit
    dirs,                 \* file system: names of the subdirectories of the target directory
    files,                \* file system: the non-directory entries below the target directory
    dirs0,                \* dirs when the run started
    files0,               \* files when the run started
    created,              \* category folders this run created (fs::create_dir returned Ok)
    attempted,            \* entries this run called fs::rename on
    printed,              \* file names this run wrote as a line of its own (main.rs:113)
    usage,                \* print_usage() was called
    errAt,                \* the operation whose Err the ? operator returned, or "none"
    fault,                \* the environment made an operation fail (permission, disk, I/O)
    report,               \* the line main() printed: "none", "finished", "failed"
    run,                  \* number of the run (the program is started again on the same directory)
    provLog,              \* dirs as each completed provisioning loop left them
    fname,                \* input of the extension computation on its own
    fext                  \* its result

vars == <<args, pc, dir_name, relevant_extensions, ignore_extensions, verbose, todo,
          entries, dirs, files, dirs0, files0, created, attempted, printed, usage,
          errAt, fault, report, run, provLog, fname, fext>>

(***************************************************************************)
(* Bounds of the model.                                                    *)
(***************************************************************************)
MaxArgs == 4

MaxFiles == 2

MaxLen == 4

MaxRuns == 2

(***************************************************************************)
(* Strings.                                                                *)
(***************************************************************************)
Range(s) == {s[k] : k \in 1..Len(s)}

SeqsUpTo(S, n) == UNION {[1..k -> S] : k \in 0..n}

\* u8::to_ascii_lowercase: 'A'..'Z' to 'a'..'z', every other character unchanged
\* (the upper-case letters are those the names of the model use).
LowerChar(c) ==
    CASE c = "P" -> "p"
      [] c = "Y" -> "y"
      [] c = "N" -> "n"
      [] c = "G" -> "g"
      [] c = "J" -> "j"
      [] OTHER  -> c

to_ascii_lowercase(s) == [k \in 1..Len(s) |-> LowerChar(s[k])]

\* str::starts_with('-')
starts_with_dash(s) == Len(s) > 0 /\ s[1] = "-"

\* Index of the last '.' of s, 0 when it has none.
LastDot(s) ==
    IF \E k \in 1..Len(s) : s[k] = "."
    THEN CHOOSE k \in 1..Len(s) : s[k] = "." /\ \A j \in (k+1)..Len(s) : s[j] # "."
    ELSE 0

\* Path::extension(): None when the file name has no '.', when it is "..", or
\* when its only '.' is its first character; otherwise the part after the
\* last '.'.  None is rendered by unwrap_or_default() as the empty string.
PathExtension(name) ==
    LET d == LastDot(name) IN
    IF d = 0 \/ d = 1 \/ name = <<".", ".">>
    THEN <<>>
    ELSE SubSeq(name, d + 1, Len(name))

\* A plausible slip: the part after the last '.', whatever precedes it, kept as typed.
ExtensionNoLower(name) == PathExtension(name)

\* main.rs:116-119
Extension(name) == to_ascii_lowercase(PathExtension(name))

(***************************************************************************)
(* The strings of the program and of the cases checked.                    *)
(***************************************************************************)
F_d == <<"-", "d">>

F_directory == <<"-", "-", "d", "i", "r", "e", "c", "t", "o", "r", "y">>

F_e == <<"-", "e">>

F_extensions == <<"-", "-", "e", "x", "t", "e", "n", "s", "i", "o", "n", "s">>

F_i == <<"-", "i">>

F_ignore == <<"-", "-", "i", "g", "n", "o", "r", "e">>

F_v == <<"-", "v">>

F_verbose == <<"-", "-", "v", "e", "r", "b", "o", "s", "e">>

F_h == <<"-", "h">>

F_help == <<"-", "-", "h", "e", "l", "p">>

F_x == <<"-", "x">>

E_png == <<"p", "n", "g">>

E_jpg == <<"j", "p", "g">>

E_jpeg == <<"j", "p", "e", "g">>

E_py == <<"p", "y">>

E_cpp == <<"c", "p", "p">>

D_images == <<"i", "m", "a", "g", "e", "s">>

D_python == <<"p", "y", "t", "h", "o", "n">>

D_cpp == <<"c", "+", "+">>

D_misc == <<"m", "i", "s", "c">>

P_dot == <<".">>

P_work == <<"w", "o", "r", "k">>

P_gone == <<"g", "o", "n", "e">>

N_a_png == <<"a", ".", "p", "n", "g">>

N_b_jpg == <<"b", ".", "j", "p", "g">>

N_c_PY == <<"c", ".", "P", "Y">>

N_b_txt == <<"b", ".", "t", "x", "t">>

N_noext == <<"n", "o", "e", "x", "t">>

N_dot_png == <<".", "p", "n", "g">>

N_l_py == <<"l", ".", "p", "y">>

(***************************************************************************)
(* Argument scanning, main.rs:38-87.                                       *)
(***************************************************************************)
\* The locals of tidyup() before the loop, main.rs:39-44.
InitialConfig ==
    [dir_name |-> P_dot, relevant |-> <<>>, ignore |-> <<>>, verbose |-> TRUE,
     status |-> "run"]

\* The inner loops of main.rs:59-62 and 67-70: the first index from i on that
\* is past the end or holds a token starting with '-'.
RECURSIVE ValuesEnd(_, _)
ValuesEnd(a, i) ==
    IF i <= Len(a) /\ ~starts_with_dash(a[i]) THEN ValuesEnd(a, i + 1) ELSE i

\* A plausible slip: an unknown argument is reported and skipped.
RECURSIVE ParseLenient(_, _, _)
ParseLenient(a, i, st) ==
    IF i > Len(a) THEN st
    ELSE
      CASE a[i] \in {F_d, F_directory} ->
             IF i + 1 <= Len(a)
             THEN ParseLenient(a, i + 2, [st EXCEPT !.dir_name = a[i + 1]])
             ELSE [st EXCEPT !.status = "missing_directory"]
        [] a[i] \in {F_e, F_extensions} ->
             ParseLenient(a, ValuesEnd(a, i + 1),
                 [st EXCEPT !.relevant = @ \o SubSeq(a, i + 1, ValuesEnd(a, i + 1) - 1)])
        [] a[i] \in {F_i, F_ignore} ->
             ParseLenient(a, ValuesEnd(a, i + 1),
                 [st EXCEPT !.ignore = @ \o SubSeq(a, i + 1, ValuesEnd(a, i + 1) - 1)])
        [] a[i] \in {F_v, F_verbose} ->
             ParseLenient(a, i + 1, [st EXCEPT !.verbose = TRUE])
        [] a[i] \in {F_h, F_help} -> [st EXCEPT !.status = "help"]
        [] OTHER -> ParseLenient(a, i + 1, st)

\* The while loop of main.rs:45-87 from index i with the locals st.  status
\* tells how it ended: "run" (fell through to main.rs:89), "help",
\* "missing_directory" or "unknown" (the three early returns after print_usage).
RECURSIVE ParseFrom(_, _, _)
ParseFrom(a, i, st) ==
    IF i > Len(a) THEN st
    ELSE
      CASE a[i] \in {F_d, F_directory} ->
             IF i + 1 <= Len(a)
             THEN ParseFrom(a, i + 2, [st EXCEPT !.dir_name = a[i + 1]])
             ELSE [st EXCEPT !.status = "missing_directory"]
        [] a[i] \in {F_e, F_extensions} ->
             ParseFrom(a, ValuesEnd(a, i + 1),
                 [st EXCEPT !.relevant = @ \o SubSeq(a, i + 1, ValuesEnd(a, i + 1) - 1)])
        [] a[i] \in {F_i, F_ignore} ->
             ParseFrom(a, ValuesEnd(a, i + 1),
                 [st EXCEPT !.ignore = @ \o SubSeq(a, i + 1, ValuesEnd(a, i + 1) - 1)])
        [] a[i] \in {F_v, F_verbose} ->
             ParseFrom(a, i + 1, [st EXCEPT !.verbose = TRUE])
        [] a[i] \in {F_h, F_help} -> [st EXCEPT !.status = "help"]
        [] OTHER -> [st EXCEPT !.status = "unknown"]

ParseArgsLenient(a) == ParseLenient(a, 1, InitialConfig)

ParseArgs(a) == ParseFrom(a, 1, InitialConfig)

(***************************************************************************)
(* The routing table, main.rs:93-98.                                       *)
(***************************************************************************)
MappingKeys == {E_png, E_jpg, E_jpeg, E_py, E_cpp}

Categories == {D_images, D_python, D_cpp}

\* extension_mapping.get(ext), for ext a key of the table.
TargetDir(ext) ==
    CASE ext \in {E_png, E_jpg, E_jpeg} -> D_images
      [] ext = E_py -> D_python
      [] ext = E_cpp -> D_cpp

\* extension_mapping.values(): each folder once per key that maps to it.
MappingValues == [c \in Categories |-> Cardinality({k \in MappingKeys : TargetDir(k) = c})]

(***************************************************************************)
(* The file system below the target directory.  A non-directory entry is   *)
(* [dir, name, kind, data]: dir is ROOT or the subdirectory holding it,    *)
(* kind is "file" or "symlink", data tells the files of one name apart.    *)
(***************************************************************************)
ROOT == <<>>

\* The directories that exist where the program is started.
ExistingDirs == {P_dot, P_work}

TargetExists == dir_name \in ExistingDirs

RootFiles(fs) == {f \in fs : f.dir = ROOT}

\* Path::exists() of path.join(c), main.rs:101: true of any kind of entry.
PathExists(c) == TargetExists /\ (c \in dirs \/ \E f \in RootFiles(files) : f.name = c)

\* A plausible slip: create_dir called without the test of main.rs:101.
NeedsCreateAlways(c) == TRUE

\* main.rs:101
NeedsCreate(c) == ~PathExists(c)

\* A plausible slip: fs::create_dir_all, which makes the missing parents too.
CreateDirAllCanSucceed(c) ==
    /\ c \notin dirs
    /\ ~\E f \in RootFiles(files) : f.name = c

\* fs::create_dir can succeed: the parent exists and the name is free.
\* create_dir does not create missing parents.
CreateDirCanSucceed(c) ==
    /\ TargetExists
    /\ c \notin dirs
    /\ ~\E f \in RootFiles(files) : f.name = c

\* A plausible slip: a recursive walk, which also lists the files inside subdirectories.
ListEntriesRecursive(fs, ds) ==
    fs \cup {[dir |-> ROOT, name |-> d, kind |-> "dir", data |-> "-"] : d \in ds}

\* fs::read_dir(path), main.rs:106: the immediate entries of the target directory.
ListEntries(fs, ds) ==
    RootFiles(fs) \cup {[dir |-> ROOT, name |-> d, kind |-> "dir", data |-> "-"] : d \in ds}

\* A plausible slip: the exclude list is not consulted.
EligibleNoExclude(ext, relevant, ignore) ==
    /\ ext # <<>>
    /\ (ext \in Range(relevant) \/ relevant = <<>>)

\* A plausible slip: an extension of the include list passes whatever the exclude list holds.
EligibleIncludeWins(ext, relevant, ignore) ==
    /\ ext # <<>>
    /\ \/ ext \in Range(relevant)
       \/ relevant = <<>> /\ (ignore = <<>> \/ ext \notin Range(ignore))

\* The condition of main.rs:121.
Eligible(ext, relevant, ignore) ==
    /\ ext # <<>>
    /\ (ext \in Range(relevant) \/ relevant = <<>>)
    /\ (ignore = <<>> \/ ext \notin Range(ignore))

\* A plausible slip: the destination file name is lowercased.
NewPathLower(e, target_dir) == [e EXCEPT !.dir = target_dir, !.name = to_ascii_lowercase(@)]

\* target_dir.join(file_name), main.rs:123
NewPath(e, target_dir) == [e EXCEPT !.dir = target_dir]

\* fs::rename(from, to) returning Ok: the entry leaves its place and replaces
\* whatever non-directory entry had the destination path.
Renamed(fs, from, to) ==
    ((fs \ {from}) \ {g \in fs : g.dir = to.dir /\ g.name = to.name}) \cup {to}

\* fs::rename can succeed: the destination folder is a directory.
RenameCanSucceed(to) == TargetExists /\ to.dir \in dirs

(***************************************************************************)
(* The run.                                                                *)
(***************************************************************************)
fsVars == <<dirs, files>>

inputVars == <<args, dirs0, files0, run, fname, fext>>

configVars == <<dir_name, relevant_extensions, ignore_extensions, verbose>>

\* A plausible slip: the Err is recorded and the loop goes on (no ? operator).
FailSwallowed(op) == errAt' = op /\ pc' = pc

\* The ? operator of main.rs:102, 106, 108, 109 and 124: tidyup() returns the Err.
Fail(op) == errAt' = op /\ pc' = "report"

\* main.rs:38-91: the arguments are scanned; either of the three early
\* returns prints the usage text and returns Ok(()).
Parse ==
    /\ pc = "parse"
    /\ LET r == ParseArgs(args) IN
         /\ dir_name' = r.dir_name
         /\ relevant_extensions' = r.relevant
         /\ ignore_extensions' = r.ignore
         /\ verbose' = r.verbose
         /\ IF r.status = "run"
            THEN /\ pc' = "provision"
                 /\ todo' = MappingValues
                 /\ usage' = usage
            ELSE /\ pc' = "report"
                 /\ todo' = todo
                 /\ usage' = TRUE
    /\ UNCHANGED <<inputVars, fsVars, entries, created, attempted, printed, errAt,
                   fault, report, provLog>>

\* One iteration of main.rs:100-104, in whatever order the HashMap yields its values.
ProvisionStep ==
    /\ pc = "provision"
    /\ \E c \in Categories :
         /\ todo[c] > 0
         /\ todo' = [todo EXCEPT ![c] = @ - 1]
         /\ IF NeedsCreate(c)
            THEN \/ /\ CreateDirCanSucceed(c)
                    /\ dirs' = dirs \cup {c}
                    /\ created' = created \cup {c}
                    /\ UNCHANGED <<pc, errAt, fault>>
                 \/ /\ ~CreateDirCanSucceed(c)
                    /\ Fail("create_dir")
                    /\ UNCHANGED <<dirs, created, fault>>
                 \/ /\ CreateDirCanSucceed(c)
                    /\ fault' = TRUE
                    /\ Fail("create_dir")
                    /\ UNCHANGED <<dirs, created>>
            ELSE UNCHANGED <<pc, errAt, fault, dirs, created>>
    /\ UNCHANGED <<inputVars, configVars, files, entries, attempted, printed, usage,
                   report, provLog>>

\* main.rs:106, once the loop of main.rs:100 has visited every value.
ReadDir ==
    /\ pc = "provision"
    /\ \A c \in Categories : todo[c] = 0
    /\ provLog' = Append(provLog, dirs)
    /\ \/ /\ TargetExists
          /\ entries' = ListEntries(files, dirs)
          /\ pc' = "scan"
          /\ UNCHANGED <<errAt, fault>>
       \/ /\ fault' = (fault \/ TargetExists)
          /\ Fail("read_dir")
          /\ UNCHANGED entries
    /\ UNCHANGED <<inputVars, configVars, fsVars, todo, created, attempted, printed,
                   usage, report>>

\* One iteration of main.rs:107-128, in whatever order the directory yields its
\* entries.  An Err returned by ? drops the iterator.
ScanEntry ==
    /\ pc = "scan"
    /\ \E e \in entries :
         \/ /\ fault' = TRUE
            /\ Fail("entry")
            /\ entries' = {}
            /\ UNCHANGED <<files, attempted, printed>>
         \/ /\ fault' = TRUE
            /\ Fail("metadata")
            /\ entries' = {}
            /\ UNCHANGED <<files, attempted, printed>>
         \/ /\ e.kind # "file"
            /\ entries' = entries \ {e}
            /\ UNCHANGED <<files, attempted, printed, pc, errAt, fault>>
         \/ /\ e.kind = "file"
            /\ printed' = printed \cup {e.name}
            /\ LET extension == Extension(e.name) IN
               IF Eligible(extension, relevant_extensions, ignore_extensions)
                    /\ extension \in MappingKeys
               THEN LET new_path == NewPath(e, TargetDir(extension)) IN
                    /\ attempted' = attempted \cup {e}
                    /\ \/ /\ RenameCanSucceed(new_path)
                          /\ files' = Renamed(files, e, new_path)
                          /\ entries' = entries \ {e}
                          /\ UNCHANGED <<pc, errAt, fault>>
                       \/ /\ ~RenameCanSucceed(new_path)
                          /\ Fail("rename")
                          /\ entries' = {}
                          /\ UNCHANGED <<files, fault>>
                       \/ /\ RenameCanSucceed(new_path)
                          /\ fault' = TRUE
                          /\ Fail("rename")
                          /\ entries' = {}
                          /\ UNCHANGED files
               ELSE /\ entries' = entries \ {e}
                    /\ UNCHANGED <<files, attempted, pc, errAt, fault>>
    /\ UNCHANGED <<inputVars, configVars, dirs, todo, created, usage, report, provLog>>

\* main.rs:130: the iterator is exhausted, tidyup() returns Ok(()).
ScanDone ==
    /\ pc = "scan"
    /\ entries = {}
    /\ pc' = "report"
    /\ UNCHANGED <<inputVars, configVars, fsVars, todo, entries, created, attempted,
                   printed, usage, errAt, fault, report, provLog>>

\* main.rs:133-138
Report ==
    /\ pc = "report"
    /\ report' = IF errAt = "none" THEN "finished" ELSE "failed"
    /\ pc' = "done"
    /\ UNCHANGED <<inputVars, configVars, fsVars, todo, entries, created, attempted,
                   printed, usage, errAt, fault, provLog>>

\* The program is started again, with the same arguments, on the directory as
\* the run before left it.
Restart ==
    /\ pc = "done"
    /\ run < MaxRuns
    /\ run' = run + 1
    /\ pc' = "parse"
    /\ dirs0' = dirs
    /\ files0' = files
    /\ dir_name' = P_dot
    /\ relevant_extensions' = <<>>
    /\ ignore_extensions' = <<>>
    /\ verbose' = TRUE
    /\ todo' = [c \in Categories |-> 0]
    /\ entries' = {}
    /\ created' = {}
    /\ attempted' = {}
    /\ printed' = {}
    /\ usage' = FALSE
    /\ errAt' = "none"
    /\ fault' = FALSE
    /\ report' = "none"
    /\ UNCHANGED <<args, fsVars, provLog, fname, fext>>

\* main.rs:115-119 on its own.
ComputeExtension ==
    /\ pc = "extension"
    /\ fext' = Extension(fname)
    /\ pc' = "extension_done"
    /\ UNCHANGED <<args, configVars, todo, entries, fsVars, dirs0, files0, created,
                   attempted, printed, usage, errAt, fault, report, run, provLog, fname>>

(***************************************************************************)
(* Initial states: the command line and the directory the program is       *)
(* started on.                                                             *)
(***************************************************************************)
Entry(d, n, k, x) == [dir |-> d, name |-> n, kind |-> k, data |-> x]

\* What the target directory may hold at its top level: regular files with a
\* mapped, an unmapped, an upper-case and no extension, a dot file, a symlink,
\* and a regular file that has the name of a category folder.
RootCandidates ==
    {Entry(ROOT, N_a_png, "file", "new"), Entry(ROOT, N_b_jpg, "file", "new"),
     Entry(ROOT, N_c_PY, "file", "new"), Entry(ROOT, N_b_txt, "file", "new"),
     Entry(ROOT, N_noext, "file", "new"), Entry(ROOT, N_dot_png, "file", "new"),
     Entry(ROOT, N_l_py, "symlink", "new"), Entry(ROOT, D_images, "file", "new")}

RootChoices == {S \in SUBSET RootCandidates : Cardinality(S) <= MaxFiles}

\* Files already inside subdirectories.
OldImage == Entry(D_images, N_a_png, "file", "old")

Nested == Entry(D_misc, N_c_PY, "file", "nested")

\* A directory: its subdirectories and its files; a name is a file or a
\* directory, and a file lies in a directory that exists.
WellFormed(ds, fs) ==
    /\ \A f \in fs : f.dir = ROOT \/ f.dir \in ds
    /\ \A f \in RootFiles(fs) : f.name \notin ds

DirChoices ==
    {[dirs |-> {D_misc}, files |-> {Nested}],
     [dirs |-> {D_misc, D_images}, files |-> {Nested}],
     [dirs |-> {D_misc, D_images, D_python, D_cpp}, files |-> {Nested, OldImage}],
     [dirs |-> {D_python}, files |-> {}]}

AllDirChoices ==
    {[dirs |-> ds, files |-> fs] :
        ds \in SUBSET (Categories \cup {D_misc}), fs \in SUBSET {Nested, OldImage}}

Tokens == {F_d, F_e, F_i, F_v, F_h, F_x, E_png, P_gone}

\* The command lines run on every directory: none, both lists given in both
\* orders, a list given twice, the long flags, an upper-case list entry.
LongArgLists ==
    {<<F_e, E_png, E_jpg, F_i, E_jpg>>,
     <<F_i, E_jpg, F_e, E_jpg, E_png>>,
     <<F_e, E_py, E_png, F_i, E_png, F_e, E_jpg>>,
     <<F_extensions, E_py, F_ignore, E_py, F_directory, P_work, F_verbose>>,
     <<F_i, E_cpp, E_jpg>>,
     <<F_e, <<"P", "N", "G">>, E_py>>,
     <<>>}

\* The directory every command line of at most MaxArgs tokens is run on.
PlainDir == [dirs |-> {D_misc}, files |-> {Nested, Entry(ROOT, N_a_png, "file", "new"),
                                            Entry(ROOT, N_c_PY, "file", "new")}]

InitWith(a, ds, fs, p, n) ==
    /\ args = a
    /\ dirs = ds
    /\ files = fs
    /\ dirs0 = ds
    /\ files0 = fs
    /\ pc = p
    /\ dir_name = P_dot
    /\ relevant_extensions = <<>>
    /\ ignore_extensions = <<>>
    /\ verbose = TRUE
    /\ todo = [c \in Categories |-> 0]
    /\ entries = {}
    /\ created = {}
    /\ attempted = {}
    /\ printed = {}
    /\ usage = FALSE
    /\ errAt = "none"
    /\ fault = FALSE
    /\ report = "none"
    /\ run = 1
    /\ provLog = <<>>
    /\ fname = n
    /\ fext = <<>>

Init ==
    \/ \E a \in SeqsUpTo(Tokens, MaxArgs) :
         InitWith(a, PlainDir.dirs, PlainDir.files, "parse", <<>>)
    \/ \E a \in LongArgLists, d \in DirChoices, r \in RootChoices :
         /\ WellFormed(d.dirs, d.files \cup r)
         /\ InitWith(a, d.dirs, d.files \cup r, "parse", <<>>)

Next == Parse \/ ProvisionStep \/ ReadDir \/ ScanEntry \/ ScanDone \/ Report

Spec == Init /\ [][Next]_vars

\* The run is one thread that runs to its end: every step that can be taken is taken.
FairSpec == Spec /\ WF_vars(Next)

\* The program run again on what the run before left.
InitRerun ==
    \E a \in {<<>>, <<F_x>>, <<F_d, P_gone>>}, d \in AllDirChoices, r \in RootChoices :
         /\ WellFormed(d.dirs, d.files \cup r)
         /\ InitWith(a, d.dirs, d.files \cup r, "parse", <<>>)

NextRerun == Next \/ Restart

SpecRerun == InitRerun /\ [][NextRerun]_vars

\* The extension of every file name of at most MaxLen characters.
Alphabet == {".", "p", "y", "P"}

InitExtension ==
    \E n \in SeqsUpTo(Alphabet, MaxLen) :
         InitWith(<<>>, {}, {}, "extension", n)

SpecExtension == InitExtension /\ [][ComputeExtension]_vars

(***************************************************************************)
(* The properties.  They are stated on the names, the lists and the file   *)
(* system, not through the operators of the run.                           *)
(***************************************************************************)
InList(x, l) == \E k \in 1..Len(l) : l[k] = x

Dots(n) == {k \in 1..Len(n) : n[k] = "."}

FinalDot(n) == CHOOSE k \in Dots(n) : \A j \in Dots(n) : j <= k

\* The substring after the final '.', lowercased; empty when there is no '.'.
AfterFinalDot(n) ==
    IF Dots(n) = {} THEN <<>>
    ELSE [k \in 1..(Len(n) - FinalDot(n)) |-> LowerChar(n[FinalDot(n) + k])]

\* The extension as the run computes it: as above, but empty when the only
\* '.' of the name is its first character.
ExtensionOf(n) == IF Dots(n) = {1} THEN <<>> ELSE AfterFinalDot(n)

RoutingTable ==
    {<<E_png, D_images>>, <<E_jpg, D_images>>, <<E_jpeg, D_images>>,
     <<E_py, D_python>>, <<E_cpp, D_cpp>>}

Routed(x) == \E r \in RoutingTable : r[1] = x

FolderOf(x) == (CHOOSE r \in RoutingTable : r[1] = x)[2]

\* The regular files directly inside the target directory when the run started.
Candidates == {f \in files0 : f.dir = ROOT /\ f.kind = "file"}

\* Conditions (a) to (d) on a file.
PassesAll(f) ==
    /\ ExtensionOf(f.name) # <<>>
    /\ Routed(ExtensionOf(f.name))
    /\ (relevant_extensions = <<>> \/ InList(ExtensionOf(f.name), relevant_extensions))
    /\ ~InList(ExtensionOf(f.name), ignore_extensions)

Completed == pc = "done" /\ report = "finished" /\ ~usage

\* C1: after a completed run a regular file of the target directory has left
\* its place if and only if its extension is non-empty, is a key of the
\* routing table, passes the include list (empty, or holding it) and is not in
\* the exclude list; a file failing one of the four is in place at every
\* moment of every run, and no rename is ever tried on it.
C1_MovedIffPassesAll ==
    /\ Completed => \A f \in Candidates : (f \notin files) <=> PassesAll(f)
    /\ pc # "parse" =>
         \A f \in Candidates : ~PassesAll(f) => f \in files /\ f \notin attempted

\* A completed run with both lists given that moved one file and left a routed one.
C1_Witness ==
    /\ Completed
    /\ relevant_extensions # <<>>
    /\ ignore_extensions # <<>>
    /\ \E f \in Candidates : f \notin files
    /\ \E f \in Candidates : Routed(ExtensionOf(f.name)) /\ f \in files

\* C2 as written: the extension computed for every file name is the substring
\* after its final '.', lowercased (empty without '.' or with a final '.'),
\* names whose only '.' is the first character included.
C2_AfterFinalDotAlways == pc = "extension_done" => fext = AfterFinalDot(fname)

\* C2 amended: the extension computed is the substring after the final '.',
\* ASCII-lowercased, except that a name whose only '.' is its first character
\* has the empty extension; a name without '.' or ending in '.' has the empty
\* extension.
C2_ExtensionComputed ==
    pc = "extension_done" =>
      /\ fext = (IF Dots(fname) = {1} THEN <<>> ELSE AfterFinalDot(fname))
      /\ (Dots(fname) = {} \/ fname[Len(fname)] = ".") => fext = <<>>

\* The extension of ".P" and of "p.P" have been computed.
C2_Witness ==
    /\ pc = "extension_done"
    /\ \/ fname = <<".", "P">> /\ fext = <<>>
       \/ fname = <<"p", ".", "P">> /\ fext = <<"p">>

\* C3: a file whose extension is in the include list and in the exclude list
\* stays in place and no rename is tried on it, at every moment of every run,
\* in whatever order the lists and their entries came.
C3_ExcludeWins ==
    pc # "parse" =>
      \A f \in Candidates :
         (InList(ExtensionOf(f.name), relevant_extensions)
            /\ InList(ExtensionOf(f.name), ignore_extensions))
         => f \in files /\ f \notin attempted

\* A completed run, the exclude list given first, that processed a routed
\* file whose extension is in both lists.
C3_Witness ==
    /\ Completed
    /\ args # <<>> /\ args[1] = F_i
    /\ \E f \in Candidates :
         /\ Routed(ExtensionOf(f.name))
         /\ InList(ExtensionOf(f.name), relevant_extensions)
         /\ InList(ExtensionOf(f.name), ignore_extensions)
         /\ f.name \in printed
         /\ f \in files

\* C9: a file that has left the top of the target directory is at
\* <category folder of its lowercased extension>/<its name, unchanged>, it is the
\* only entry of that path (a file that was there is replaced), and no entry of
\* its name is left at the top.
C9_MovedToCategoryFolder ==
    \A f \in Candidates :
       f \notin files =>
         /\ Routed(ExtensionOf(f.name))
         /\ [f EXCEPT !.dir = FolderOf(ExtensionOf(f.name))] \in files
         /\ \A g \in files :
              (g.name = f.name /\ g.dir \in {ROOT, FolderOf(ExtensionOf(f.name))})
              => g = [f EXCEPT !.dir = FolderOf(ExtensionOf(f.name))]

\* c.PY is at python/c.PY, and a.png has replaced the a.png that images held.
C9_Witness ==
    /\ Completed
    /\ Entry(ROOT, N_c_PY, "file", "new") \in files0
    /\ Entry(D_python, N_c_PY, "file", "new") \in files
    /\ OldImage \in files0
    /\ Entry(D_images, N_a_png, "file", "new") \in files
    /\ OldImage \notin files

\* C4: once an operation has failed, no directory is created and no file is
\* moved (what was created and moved before stays: the file system is the one
\* the failing operation found), nothing further is tried, and the run ends
\* with the error report, never with the success report.
C4_FailFast ==
    /\ [][errAt' # "none" =>
            /\ dirs' = dirs
            /\ files' = files
            /\ (errAt # "none" => created' = created /\ attempted' = attempted)]_vars
    /\ [](errAt # "none" =>
            /\ pc \in {"report", "done"}
            /\ report # "finished"
            /\ (pc = "done" => report = "failed"))

\* A run that created a folder and moved a file, then failed in a rename and
\* reported the failure, with a file that passes the filters still in place.
C4_Witness ==
    /\ pc = "done"
    /\ errAt = "rename"
    /\ report = "failed"
    /\ created # {}
    /\ \E f \in Candidates : f \notin files
    /\ \E f \in Candidates : PassesAll(f) /\ f \in files

KnownFlags ==
    {F_d, F_directory, F_e, F_extensions, F_i, F_ignore, F_v, F_verbose, F_h, F_help}

\* Token k is the directory given to a -d/--directory flag.
RECURSIVE IsDirectoryValue(_, _)
IsDirectoryValue(a, k) ==
    /\ k > 1
    /\ a[k - 1] \in {F_d, F_directory}
    /\ ~IsDirectoryValue(a, k - 1)

\* Token k is an entry of the list of a -e/--extensions or -i/--ignore flag.
IsListValue(a, k) ==
    /\ ~IsDirectoryValue(a, k)
    /\ \E j \in 1..(k - 1) :
         /\ a[j] \in {F_e, F_extensions, F_i, F_ignore}
         /\ ~IsDirectoryValue(a, j)
         /\ \A m \in (j + 1)..k : a[m][1] # "-"

\* Token k stands where a flag is expected.
InFlagPosition(a, k) == ~IsDirectoryValue(a, k) /\ ~IsListValue(a, k)

NoFilesystemAction ==
    /\ created = {}
    /\ attempted = {}
    /\ dirs = dirs0
    /\ files = files0

\* C5 as written: a command line that holds an unknown flag, or one of
\* -d/--directory, -e/--extensions, -i/--ignore followed by no value token,
\* makes the program print the usage text and touch nothing.
C5_UsageOnAnyMissingValue ==
    (/\ pc # "parse"
     /\ \E k \in 1..Len(args) :
          \/ args[k][1] = "-" /\ args[k] \notin KnownFlags
          \/ /\ args[k] \in {F_d, F_directory, F_e, F_extensions, F_i, F_ignore}
             /\ (k = Len(args) \/ args[k + 1][1] = "-"))
    => usage /\ NoFilesystemAction

\* C5 amended: a command line that holds, where a flag is expected, a token
\* that is no known flag, or that ends with -d/--directory where a flag is
\* expected, makes the program print the usage text and touch nothing.  Any
\* token after -d/--directory is taken as the directory, and -e/--extensions
\* or -i/--ignore followed by no value token is an empty list: without one of
\* the two defects and without -h/--help the usage text is not printed.
C5_UsageOnUnknownOrMissingDirectory ==
    pc # "parse" =>
      LET bad == \E k \in 1..Len(args) :
                    /\ InFlagPosition(args, k)
                    /\ \/ args[k] \notin KnownFlags
                       \/ args[k] \in {F_d, F_directory} /\ k = Len(args)
          help == \E k \in 1..Len(args) :
                    InFlagPosition(args, k) /\ args[k] \in {F_h, F_help}
      IN /\ bad => usage /\ NoFilesystemAction
         /\ (~bad /\ ~help) => ~usage

\* A command line was refused after a valid flag, and the run has ended.
C5_Witness ==
    /\ pc = "done"
    /\ usage
    /\ Len(args) >= 2
    /\ args[1] \in {F_e, F_v}
    /\ args[Len(args)] \in {F_x, F_d}
    /\ \A k \in 1..Len(args) : args[k] \notin {F_h, F_help}

C7_SubdirectoriesUntouched ==
    \A f \in files0 : f.dir # ROOT => f \in files

\* C7 amended: a rename is tried only on regular files that are immediate
\* entries of the target directory; directories and other non-file entries are
\* passed over; a file inside a subdirectory is never moved or renamed, and it
\* is removed only when it lies in a category folder and a moved file of the
\* same name replaces it.
C7_NonRecursion ==
    /\ \A e \in attempted : e \in Candidates
    /\ \A f \in files0 :
         f.dir # ROOT =>
           \/ f \in files
           \/ /\ f.dir \in Categories
              /\ \E g \in Candidates :
                   /\ g.name = f.name
                   /\ g \in attempted
                   /\ [g EXCEPT !.dir = f.dir] \in files
              /\ ~\E g \in files : g.data = f.data

\* A completed run that moved a file, met a symlink and subdirectories, and
\* left the file inside misc where it was.
C7_Witness ==
    /\ Completed
    /\ Nested \in files
    /\ Entry(ROOT, N_l_py, "symlink", "new") \in files
    /\ \E f \in Candidates : f \notin files

\* C8: in a run whose arguments hold neither -v nor --verbose, no file name is
\* written as a progress line.
C8_QuietWithoutVerbose ==
    (\A k \in 1..Len(args) : args[k] \notin {F_v, F_verbose}) => printed = {}

\* The engine runs on a target directory that does not exist.
TargetMissing == pc # "parse" /\ ~usage /\ dir_name \notin ExistingDirs

\* C10: a run on a target directory that does not exist has created no
\* directory and moved no file at any moment, never reports success, and ends
\* with the report of a failure.
C10_MissingDirectoryIsFatal ==
    /\ [](TargetMissing => NoFilesystemAction /\ report # "finished")
    /\ (TargetMissing ~> (pc = "done" /\ report = "failed" /\ errAt # "none"))

\* The run on the missing directory "gone" has ended in the failure of create_dir.
C10_Witness ==
    /\ pc = "done"
    /\ dir_name = P_gone
    /\ errAt = "create_dir"
    /\ ~fault
    /\ report = "failed"

====
